---- MODULE Spec2Model ----
(***************************************************************************)
(* Model of the UOWC link-budget engine (src/UOWC/link.py, media.py,       *)
(* iop_tables.py, modulation.py).                                          *)
(*                                                                         *)
(* Python floats are modelled as decimal floating-point numbers with a     *)
(* four-digit mantissa: [k |-> "num", m |-> mantissa, e |-> exponent]      *)
(* stands for m * 10^e with m = 0 or 1000 <= |m| <= 9999.  The IEEE        *)
(* specials are k = "inf", "ninf", "nan".  Every arithmetic operator       *)
(* rounds its result to four digits, as float64 rounds to 53 bits.         *)
(***************************************************************************)
EXTENDS Integers, Sequences, FiniteSets, TLC

\* ------------------------------------------------------------------------
\* Floating point
\* ------------------------------------------------------------------------

Abs(n) == IF n < 0 THEN -n ELSE n

Sgn(n) == IF n < 0 THEN -1 ELSE IF n > 0 THEN 1 ELSE 0

RECURSIVE Pow10(_)
Pow10(n) == IF n <= 0 THEN 1 ELSE 10 * Pow10(n - 1)

\* The float with mantissa m (already four digits, or 0) and exponent e.
Num(m, e) == [k |-> "num", m |-> m, e |-> e]

Zero == Num(0, 0)

Inf == [k |-> "inf", m |-> 0, e |-> 0]

NInf == [k |-> "ninf", m |-> 0, e |-> 0]

NaN == [k |-> "nan", m |-> 0, e |-> 0]

\* Number of decimal digits of a, for 1 <= a < 2^31.
Digits(a) ==
    IF a < 10000
    THEN (IF a < 100 THEN (IF a < 10 THEN 1 ELSE 2)
          ELSE (IF a < 1000 THEN 3 ELSE 4))
    ELSE IF a < 10000000
         THEN (IF a < 100000 THEN 5 ELSE IF a < 1000000 THEN 6 ELSE 7)
    ELSE (IF a < 100000000 THEN 8 ELSE IF a < 1000000000 THEN 9 ELSE 10)

\* a / p rounded to nearest; a carry out of the fourth digit moves the point.
Rounded(sign, a, p, e) ==
    IF (a + p \div 2) \div p >= 10000
    THEN Num(sign * 1000, e + 1)
    ELSE Num(sign * ((a + p \div 2) \div p), e)

\* The float nearest to sign * a * 10^e, where a > 0 has n digits.
Shifted(sign, a, e, n) ==
    IF n <= 4 THEN Num(sign * a * Pow10(4 - n), e - (4 - n))
    ELSE Rounded(sign, a, Pow10(n - 4), e + (n - 4))

\* The float nearest to m * 10^e: the mantissa is rounded to four digits.
Norm(m, e) == IF m = 0 THEN Zero ELSE Shifted(Sgn(m), Abs(m), e, Digits(Abs(m)))

\* The float literal m * 10^e.
Dec(m, e) == Norm(m, e)

IsNum(a) == a.k = "num"

IsZero(a) == a.k = "num" /\ a.m = 0

\* -1, 0, 1 for a number or an infinity; 2 for nan.
Sign(a) ==
    CASE a.k = "num" -> Sgn(a.m)
      [] a.k = "inf" -> 1
      [] a.k = "ninf" -> -1
      [] OTHER -> 2

SignedInf(s) == IF s > 0 THEN Inf ELSE NInf

FNeg(a) ==
    CASE a.k = "num" -> Num(-a.m, a.e)
      [] a.k = "inf" -> NInf
      [] a.k = "ninf" -> Inf
      [] OTHER -> NaN

FAbs(a) == IF Sign(a) = -1 THEN FNeg(a) ELSE a

FMul(a, b) ==
    IF a.k = "nan" \/ b.k = "nan" THEN NaN
    ELSE IF IsNum(a) /\ IsNum(b) THEN Norm(a.m * b.m, a.e + b.e)
    ELSE IF Sign(a) = 0 \/ Sign(b) = 0 THEN NaN
    ELSE SignedInf(Sign(a) * Sign(b))

Sq(a) == FMul(a, a)

\* float64 division: a zero divisor gives inf or nan, never an exception.
FDiv(a, b) ==
    IF a.k = "nan" \/ b.k = "nan" THEN NaN
    ELSE IF IsNum(a) /\ IsNum(b)
         THEN IF b.m = 0
              THEN (IF a.m = 0 THEN NaN ELSE SignedInf(Sgn(a.m)))
              ELSE Norm(Sgn(a.m) * Sgn(b.m) * ((Abs(a.m) * 100000) \div Abs(b.m)),
                        a.e - b.e - 5)
    ELSE IF ~IsNum(a) /\ ~IsNum(b) THEN NaN
    ELSE IF IsNum(a) THEN Zero
    ELSE SignedInf(Sign(a) * (IF Sign(b) < 0 THEN -1 ELSE 1))

\* hi + lo for numbers with hi.e >= lo.e, neither zero.
AddAligned(hi, lo) ==
    IF hi.e - lo.e > 5 THEN hi
    ELSE Norm(hi.m * Pow10(hi.e - lo.e) + lo.m, lo.e)

FAdd(a, b) ==
    IF a.k = "nan" \/ b.k = "nan" THEN NaN
    ELSE IF ~IsNum(a) /\ ~IsNum(b) THEN (IF a.k = b.k THEN a ELSE NaN)
    ELSE IF ~IsNum(a) THEN a
    ELSE IF ~IsNum(b) THEN b
    ELSE IF a.m = 0 THEN b
    ELSE IF b.m = 0 THEN a
    ELSE IF a.e >= b.e THEN AddAligned(a, b)
    ELSE AddAligned(b, a)

FSub(a, b) == FAdd(a, FNeg(b))

\* a < b for numbers: by sign, then exponent, then mantissa.
NumLt(a, b) ==
    IF Sgn(a.m) # Sgn(b.m) THEN Sgn(a.m) < Sgn(b.m)
    ELSE IF a.m = 0 THEN FALSE
    ELSE IF a.m > 0 THEN a.e < b.e \/ (a.e = b.e /\ a.m < b.m)
    ELSE a.e > b.e \/ (a.e = b.e /\ a.m < b.m)

\* a < b; every comparison with nan is false.
FLt(a, b) ==
    IF a.k = "nan" \/ b.k = "nan" THEN FALSE
    ELSE IF a.k = "ninf" THEN b.k # "ninf"
    ELSE IF a.k = "inf" THEN FALSE
    ELSE IF b.k = "inf" THEN TRUE
    ELSE IF b.k = "ninf" THEN FALSE
    ELSE NumLt(a, b)

FGt(a, b) == FLt(b, a)

FLe(a, b) == a.k # "nan" /\ b.k # "nan" /\ ~FLt(b, a)

\* Python's builtin max(a, b): a unless b > a.
PyMax(a, b) == IF FGt(b, a) THEN b ELSE a

FromInt(n) == Norm(n, 0)

One == FromInt(1)

Two == FromInt(2)

Four == FromInt(4)

Ten == FromInt(10)

Half == Dec(5, -1)

Ln2 == Dec(6931, -4)

Ln10 == Dec(2303, -3)

\* A term too small to change a sum that has reached acc.
Negligible(term, acc) ==
    IsZero(term) \/ (IsNum(term) /\ IsNum(acc) /\ ~IsZero(acc) /\ term.e + 5 < acc.e)

\* exp(x) for |x| <= 1: the power series 1 + x + x^2/2 + ..., term being
\* x^n / n!, summed until the terms no longer change the sum.
RECURSIVE ExpSeries(_, _, _, _)
ExpSeries(x, n, term, acc) ==
    IF n > 12 \/ Negligible(term, acc) THEN acc
    ELSE ExpSeries(x, n + 1, FDiv(FMul(term, x), FromInt(n + 1)), FAdd(acc, term))

\* np.exp: argument halving down to |x| <= 1, then the series.
RECURSIVE Exp(_)
Exp(x) ==
    CASE x.k = "nan" -> NaN
      [] x.k = "inf" -> Inf
      [] x.k = "ninf" -> Zero
      [] OTHER ->
           IF FGt(FAbs(x), One)
           THEN Sq(Exp(FMul(x, Half)))
           ELSE ExpSeries(x, 1, x, One)

\* atanh(y) = y + y^3/3 + y^5/5 + ..., pw being y^n.
RECURSIVE AtanhSeries(_, _, _, _)
AtanhSeries(y2, n, pw, acc) ==
    IF n > 11 \/ Negligible(pw, acc) THEN acc
    ELSE AtanhSeries(y2, n + 2, FMul(pw, y2), FAdd(acc, FDiv(pw, FromInt(n))))

Atanh(y, y2) == AtanhSeries(y2, 3, FMul(y, y2), y)

\* ln(f) = 2 * atanh((f - 1) / (f + 1))
LnNearOne(y) == FMul(Two, Atanh(y, Sq(y)))

\* ln(f) for f in [1/2, 10): halve f down to at most 3/2, then the series.
RECURSIVE LnReduced(_)
LnReduced(f) ==
    IF FGt(f, Dec(15, -1)) THEN FAdd(Ln2, LnReduced(FMul(f, Half)))
    ELSE LnNearOne(FDiv(FSub(f, One), FAdd(f, One)))

\* np.log: ln(m * 10^e) = ln(m / 1000) + (e + 3) * ln(10).
Ln(x) ==
    CASE x.k = "nan" \/ x.k = "ninf" -> NaN
      [] x.k = "inf" -> Inf
      [] OTHER ->
           IF x.m < 0 THEN NaN
           ELSE IF x.m = 0 THEN NInf
           ELSE FAdd(LnReduced(Num(x.m, -3)), FMul(FromInt(x.e + 3), Ln10))

\* np.log10: log10(m * 10^e) = ln(m / 1000) / ln(10) + (e + 3).
Log10(x) ==
    CASE x.k = "nan" \/ x.k = "ninf" -> NaN
      [] x.k = "inf" -> Inf
      [] OTHER ->
           IF x.m < 0 THEN NaN
           ELSE IF x.m = 0 THEN NInf
           ELSE FAdd(FDiv(LnReduced(Num(x.m, -3)), Ln10), FromInt(x.e + 3))

\* Largest r in lo..hi with r * r <= n (hi * hi must fit the integer width).
RECURSIVE ISqrt(_, _, _)
ISqrt(n, lo, hi) ==
    IF lo >= hi THEN lo
    ELSE IF ((lo + hi + 1) \div 2) * ((lo + hi + 1) \div 2) <= n
         THEN ISqrt(n, (lo + hi + 1) \div 2, hi)
    ELSE ISqrt(n, lo, (lo + hi + 1) \div 2 - 1)

\* np.sqrt: the mantissa is widened to an even exponent and rooted.
Sqrt(x) ==
    CASE x.k = "nan" \/ x.k = "ninf" -> NaN
      [] x.k = "inf" -> Inf
      [] OTHER ->
           IF x.m < 0 THEN NaN
           ELSE IF x.m = 0 THEN Zero
           ELSE IF x.e % 2 = 0
                THEN Norm(ISqrt(x.m * 10000, 0, 10000), (x.e - 4) \div 2)
                ELSE Norm(ISqrt(x.m * 100000, 0, 31622), (x.e - 5) \div 2)

\* x ** y for floats: exp(y * ln x) for x > 0.
Pow(x, y) ==
    IF x.k = "nan" \/ y.k = "nan" THEN NaN
    ELSE IF IsZero(y) THEN One
    ELSE IF IsZero(x) THEN (IF Sign(y) > 0 THEN Zero ELSE Inf)
    ELSE IF Sign(x) < 0 THEN NaN
    ELSE Exp(FMul(y, Ln(x)))

\* ------------------------------------------------------------------------
\* Library functions of angles in degrees.  The model keeps an angle as a
\* float; the tables hold np.cos, np.sin and np.tan of np.deg2rad(angle),
\* rounded to four digits, for the angles the bounded inputs use.
\* ------------------------------------------------------------------------

None == [k |-> "none", m |-> 0, e |-> 0]

Pi == Dec(3142, -3)

\* The angle in whole half-degrees (the key of the tables).
HalfDegrees(x) ==
    IF x.e >= 0 THEN 2 * x.m * Pow10(x.e) ELSE (2 * x.m) \div Pow10(-x.e)

CosDeg(x) ==
    LET h == Abs(HalfDegrees(x))
    IN  CASE h = 0 -> One
          [] h = 30 -> Dec(9659, -4)
          [] h = 60 -> Dec(8660, -4)
          [] h = 90 -> Dec(7071, -4)
          [] h = 120 -> Dec(5000, -4)
          [] h = 180 -> Dec(6123, -20)
          [] h = 240 -> Dec(-5000, -4)

SinDeg(x) ==
    LET h == HalfDegrees(x)
    IN  CASE h = 0 -> Zero
          [] h = 60 -> Dec(5000, -4)
          [] h = 180 -> One
          [] h = 240 -> Dec(8660, -4)

TanDeg(x) ==
    LET h == HalfDegrees(x)
    IN  CASE h = 1 -> Dec(8727, -6)
          [] h = 18 -> Dec(1584, -4)

\* ------------------------------------------------------------------------
\* iop_tables.py, media.py
\* ------------------------------------------------------------------------

pure_sea_520nm ==
    [a_m1 |-> Dec(4418, -5), b_m1 |-> Dec(9092, -7), name |-> "Pure Sea (520 nm)"]

clear_ocean_520nm ==
    [a_m1 |-> Dec(8642, -5), b_m1 |-> Dec(1226, -5), name |-> "Clear Ocean (520 nm)"]

coastal_ocean_520nm ==
    [a_m1 |-> Dec(2179, -4), b_m1 |-> Dec(9966, -5), name |-> "Coastal Ocean (520 nm)"]

turbid_harbor_520nm ==
    [a_m1 |-> Dec(1112, -3), b_m1 |-> Dec(5266, -4), name |-> "Turbid Harbor (520 nm)"]

c_m1(water) == FAdd(water.a_m1, water.b_m1)

\* ------------------------------------------------------------------------
\* link.py: physical constants, Tx, Rx, Geometry
\* ------------------------------------------------------------------------

q == Dec(1602, -22)

kB == Dec(1381, -26)

\* Tx(Pt_w, eta_t=0.9, semi_angle_deg=60, is_laser=False, theta_div_deg=9.0,
\*    m_lambert=None)
Tx(Pt_w, is_laser) ==
    [Pt_w |-> Pt_w, eta_t |-> Dec(9, -1), semi_angle_deg |-> FromInt(60),
     is_laser |-> is_laser, theta_div_deg |-> FromInt(9), m_lambert |-> None]

lambert_m(tx) ==
    IF tx.is_laser THEN One
    ELSE IF tx.m_lambert # None THEN tx.m_lambert
    ELSE FDiv(FNeg(Ln(Two)), Ln(CosDeg(tx.semi_angle_deg)))

\* Rx(R_A_per_W, A_pd_m2, eta_r=0.9, T=300.0, R_load=50.0)
Rx(R_A_per_W, A_pd_m2, R_load) ==
    [R_A_per_W |-> R_A_per_W, A_pd_m2 |-> A_pd_m2, eta_r |-> Dec(9, -1),
     T |-> FromInt(300), R_load |-> R_load]

\* Geometry(distance_m, theta_tx_deg, phi_incident_deg, fov_deg,
\*          G_tx_optics=1.0, n_concentrator=1.5)
Geometry(distance_m, theta_tx_deg, phi_incident_deg, fov_deg) ==
    [distance_m |-> distance_m, theta_tx_deg |-> theta_tx_deg,
     phi_incident_deg |-> phi_incident_deg, fov_deg |-> fov_deg,
     G_tx_optics |-> One, n_concentrator |-> Dec(15, -1)]

rx_concentrator_gain(geom) ==
    FDiv(Sq(geom.n_concentrator), PyMax(Sq(SinDeg(geom.fov_deg)), Dec(1, -12)))

fov_window(geom, phi_incident_deg) ==
    IF FLe(FAbs(phi_incident_deg), geom.fov_deg) THEN One ELSE Zero

\* ------------------------------------------------------------------------
\* np.random: the process-wide generator behind np.random.normal, .gamma and
\* .weibull.  Its state is one integer; every variate asked of it advances
\* the state by one step.  Raw variates are functions of the state they are
\* drawn at, and are positive for the gamma and Weibull laws.
\* ------------------------------------------------------------------------

NextRng(s) == (5 * s + 3) % 16

RECURSIVE RngAfter(_, _)
RngAfter(s, n) == IF n <= 0 THEN s ELSE RngAfter(NextRng(s), n - 1)

\* A uniform variate in (0, 1).
Uniform(s) == FDiv(FromInt(2 * s + 1), FromInt(32))

\* A standard normal variate: one of -1.75, -1.25, ..., 1.75.
StdNormal(s) == FDiv(FromInt(2 * (s % 8) - 7), FromInt(4))

StdExponential(s) == FNeg(Ln(FSub(One, Uniform(s))))

\* np.random.normal(loc, scale, size=size)
RandomNormal(loc, scale, size, s) ==
    [i \in 1..size |-> FAdd(loc, FMul(scale, StdNormal(RngAfter(s, i - 1))))]

\* np.random.gamma(shape=shape, scale=scale, size=size); shape 1 is the
\* exponential law.
RandomGamma(shape, scale, size, s) ==
    [i \in 1..size |->
        FMul(FMul(StdExponential(RngAfter(s, i - 1)), shape), scale)]

\* np.random.weibull(a=a, size=size)
RandomWeibull(a, size, s) ==
    [i \in 1..size |-> Pow(StdExponential(RngAfter(s, i - 1)), FDiv(One, a))]

RECURSIVE SumFrom(_, _, _)
SumFrom(g, i, acc) ==
    IF i > Len(g) THEN acc ELSE SumFrom(g, i + 1, FAdd(acc, g[i]))

\* np.mean(g)
Mean(g) == FDiv(SumFrom(g, 1, Zero), FromInt(Len(g)))

\* g / mean, element by element
DivideAll(g, mean) == [i \in 1..Len(g) |-> FDiv(g[i], mean)]

\* np.exp(x), element by element
ExpAll(x) == [i \in 1..Len(x) |-> Exp(x[i])]

\* np.ones(size)
Ones(size) == [i \in 1..size |-> One]

\* ------------------------------------------------------------------------
\* link.py: Turbulence
\* ------------------------------------------------------------------------

\* Turbulence(model_name='lognormal', scint_index=0.0, gg_alpha=1.0,
\*            gg_beta=1.0, weibull_k=1.0, weibull_lambda=1.0); Turbulence.model
Turbulence(model_name, scint_index) ==
    [model_name |-> model_name, scint_index |-> scint_index,
     gg_alpha |-> One, gg_beta |-> One, weibull_k |-> One,
     weibull_lambda |-> One]

\* str.lower() on the model names of the bounded inputs.
Lower(name) ==
    CASE name = "LogNormal" -> "lognormal"
      [] name = "Weibull" -> "weibull"
      [] OTHER -> name

\* What a call of fading_gain leaves behind: the outcome, the gains returned,
\* the generator's state and the number of variates drawn from it.
Faded(gains, s, variates) ==
    [status |-> "ok", gains |-> gains, rng |-> s, variates |-> variates]

\* The lognormal branch: np.exp(np.random.normal(mu, np.sqrt(sigmaX2), size))
\* with mu = -0.5 * sigmaX2.
LognormalGains(sigmaX2, size, s) ==
    ExpAll(RandomNormal(FMul(Dec(-5, -1), sigmaX2), Sqrt(sigmaX2), size, s))

\* the samplers had they returned g as drawn
AsDrawn(g) == g

\* g / np.mean(g)
UnitMean(g) == DivideAll(g, Mean(g))

\* g * weibull_lambda, element by element
Scaled(g, lambda) == [i \in 1..Len(g) |-> FMul(g[i], lambda)]

\* fading_gain had its first test read scint_index < 0: an index of exactly 0
\* would reach the samplers.
fading_gain_strict(turb, size, s) ==
    IF FLt(turb.scint_index, Zero) THEN Faded(Ones(size), s, 0)
    ELSE IF Lower(turb.model_name) = "lognormal"
         THEN Faded(LognormalGains(Ln(FAdd(One, turb.scint_index)), size, s),
                    RngAfter(s, size), size)
    ELSE IF Lower(turb.model_name) \in {"gen-gamma", "generalized-gamma"}
         THEN Faded(UnitMean(RandomGamma(turb.gg_beta, turb.gg_alpha, size, s)),
                    RngAfter(s, size), size)
    ELSE IF Lower(turb.model_name) = "weibull"
         THEN Faded(UnitMean(Scaled(RandomWeibull(turb.weibull_k, size, s),
                                    turb.weibull_lambda)),
                    RngAfter(s, size), size)
    ELSE Faded(Ones(size), s, 0)

\* Turbulence.fading_gain(size), called with the generator in state s.
fading_gain(turb, size, s) ==
    IF FLe(turb.scint_index, Zero) THEN Faded(Ones(size), s, 0)
    ELSE IF Lower(turb.model_name) = "lognormal"
         THEN Faded(LognormalGains(Ln(FAdd(One, turb.scint_index)), size, s),
                    RngAfter(s, size), size)
    ELSE IF Lower(turb.model_name) \in {"gen-gamma", "generalized-gamma"}
         THEN Faded(UnitMean(RandomGamma(turb.gg_beta, turb.gg_alpha, size, s)),
                    RngAfter(s, size), size)
    ELSE IF Lower(turb.model_name) = "weibull"
         THEN Faded(UnitMean(Scaled(RandomWeibull(turb.weibull_k, size, s),
                                    turb.weibull_lambda)),
                    RngAfter(s, size), size)
    ELSE Faded(Ones(size), s, 0)

\* ------------------------------------------------------------------------
\* link.py: Link
\* ------------------------------------------------------------------------

Link(water, tx, rx, geom, turb) ==
    [water |-> water, tx |-> tx, rx |-> rx, geom |-> geom, turb |-> turb]

\* num of _geom_gain_led, for the Lambertian order m
LedNum(self, m) ==
    FMul(FMul(FMul(FMul(FMul(
        FDiv(FAdd(m, One), FMul(Two, Pi)),
        Pow(CosDeg(self.geom.theta_tx_deg), m)),
        self.geom.G_tx_optics),
        rx_concentrator_gain(self.geom)),
        self.rx.A_pd_m2),
        PyMax(CosDeg(self.geom.phi_incident_deg), Zero))

geom_gain_led(self) ==
    FMul(fov_window(self.geom, self.geom.phi_incident_deg),
         PyMax(FDiv(LedNum(self, lambert_m(self.tx)),
                    PyMax(FMul(FMul(FMul(Two, Pi), self.geom.distance_m),
                               self.geom.distance_m),
                          Dec(1, -24))),
               Zero))

geom_gain_ld(self) ==
    FMul(fov_window(self.geom, self.geom.phi_incident_deg),
         PyMax(FDiv(FMul(FMul(FMul(self.geom.G_tx_optics,
                                   rx_concentrator_gain(self.geom)),
                              self.rx.A_pd_m2),
                         PyMax(CosDeg(self.geom.phi_incident_deg), Zero)),
                    FMul(FMul(FMul(Pi, self.geom.distance_m), self.geom.distance_m),
                         FAdd(Sq(TanDeg(PyMax(self.tx.theta_div_deg, Half))),
                              Dec(1, -12)))),
               Zero))

\* atten had the sign of the exponent been dropped: np.exp(c * d)
atten_growing(self) == Exp(FMul(c_m1(self.water), self.geom.distance_m))

\* atten = np.exp(-c * d)
atten(self) == Exp(FMul(FNeg(c_m1(self.water)), self.geom.distance_m))

\* Pt * atten * G * eta_r * turb
Budget(self, turb) ==
    FMul(FMul(FMul(FMul(FMul(self.tx.Pt_w, self.tx.eta_t), atten(self)),
                   IF self.tx.is_laser THEN geom_gain_ld(self)
                   ELSE geom_gain_led(self)),
              self.rx.eta_r),
         turb)

\* What a call of received_power_W leaves behind: the outcome, the power
\* returned, the fading gain used, the calls of fading_gain made, the
\* generator's state and the number of variates drawn from it.
Received(value, gain, fading_calls, s, variates) ==
    [status |-> "ok", value |-> value, gain |-> gain,
     fading_calls |-> fading_calls, rng |-> s, variates |-> variates]

\* turb = float(self.turb.fading_gain(size=1)[0]), f being what the call left
WithFading(self, f) == Received(Budget(self, f.gains[1]), f.gains[1], 1, f.rng, f.variates)

\* received_power_W had it tested "if stochastic:" only
received_power_W_any_index(self, stochastic, s) ==
    IF stochastic
    THEN WithFading(self, fading_gain(self.turb, 1, s))
    ELSE Received(Budget(self, One), One, 0, s, 0)

\* received_power_W had it tested "if self.turb.scint_index > 0:" only
received_power_W_any_mode(self, stochastic, s) ==
    IF FGt(self.turb.scint_index, Zero)
    THEN WithFading(self, fading_gain(self.turb, 1, s))
    ELSE Received(Budget(self, One), One, 0, s, 0)

\* Link.received_power_W(stochastic), called with the generator in state s.
received_power_W(self, stochastic, s) ==
    IF stochastic /\ FGt(self.turb.scint_index, Zero)
    THEN WithFading(self, fading_gain(self.turb, 1, s))
    ELSE Received(Budget(self, One), One, 0, s, 0)

\* Link.noise_variances(Pr_W, bandwidth_Hz, rin, Idark_A, Pbg_W, R_apd_M,
\* F_excess); a holds the arguments after Pr_W.  The dict returned, as a record.
noise_variances(self, Pr_W, a) ==
    [shot |->
        FMul(FMul(FMul(FMul(FMul(Two, q), FMul(self.rx.R_A_per_W, a.R_apd_M)),
                       FAdd(Pr_W, a.Pbg_W)),
                  a.bandwidth_Hz),
             a.F_excess),
     thermal |->
        FDiv(FMul(FMul(FMul(Four, kB), self.rx.T), a.bandwidth_Hz),
             PyMax(self.rx.R_load, Dec(1, -3))),
     dark |->
        IF a.Idark_A # None /\ ~IsZero(a.Idark_A) /\ FGt(a.Idark_A, Zero)
        THEN FMul(FMul(FMul(Two, q), a.Idark_A), a.bandwidth_Hz)
        ELSE Zero,
     rin |->
        IF a.rin # None
        THEN FMul(FMul(Sq(FMul(FMul(self.rx.R_A_per_W, a.R_apd_M), Pr_W)),
                       a.bandwidth_Hz),
                  a.rin)
        ELSE Zero]

\* nv.values() had the dict been built without its rin entry
ValuesWithoutRin(nv) == <<nv.shot, nv.thermal, nv.dark>>

\* nv.values(), in the dict's insertion order.
Values(nv) == <<nv.shot, nv.thermal, nv.dark, nv.rin>>

\* sum(nv.values())
sum(values) == SumFrom(values, 1, Zero)

\* 10 * np.log10(sig / max(sigma2, 1e-30) + 1e-30)
Decibels(sig, sigma2) ==
    FMul(Ten, Log10(FAdd(FDiv(sig, PyMax(sigma2, Dec(1, -30))), Dec(1, -30))))

\* What a call of snr_db leaves behind, rp being what received_power_W left.
SnrOf(self, a, rp, nv, sigma2) ==
    [status |-> "ok",
     value |-> Decibels(Sq(FMul(FMul(self.rx.R_A_per_W, a.R_apd_M), rp.value)),
                        sigma2),
     Pr |-> rp.value, nv |-> nv, sigma2 |-> sigma2,
     fading_calls |-> rp.fading_calls, rng |-> rp.rng, variates |-> rp.variates]

SnrWithNoise(self, a, rp, nv) == SnrOf(self, a, rp, nv, sum(Values(nv)))

SnrWithPower(self, a, rp) ==
    SnrWithNoise(self, a, rp, noise_variances(self, rp.value, a))

\* snr_db had it asked for self.received_power_W(stochastic=True)
snr_db_faded(self, a, s) == SnrWithPower(self, a, received_power_W(self, TRUE, s))

\* Link.snr_db(bandwidth_Hz, rin, Idark_A, Pbg_W, R_apd_M, F_excess), called
\* with the generator in state s; a holds the arguments.
snr_db(self, a, s) == SnrWithPower(self, a, received_power_W(self, FALSE, s))

\* ------------------------------------------------------------------------
\* modulation.py: ppm_encode
\* ------------------------------------------------------------------------

RECURSIVE Pow2(_)
Pow2(n) == IF n <= 0 THEN 1 ELSE 2 * Pow2(n - 1)

\* int(np.ceil(np.log2(M))) for M >= 1: the least k with 2^k >= M.
RECURSIVE CeilLog2From(_, _)
CeilLog2From(M, k) == IF Pow2(k) >= M THEN k ELSE CeilLog2From(M, k + 1)

CeilLog2(M) == CeilLog2From(M, 0)

\* np.packbits(row[::-1], bitorder='little')[0]: the first byte packs the
\* first eight entries of the reversed row, entry j with weight 2^j.
RECURSIVE PackFirstByte(_, _)
PackFirstByte(row, j) ==
    IF j >= Len(row) \/ j >= 8 THEN 0
    ELSE row[Len(row) - j] * Pow2(j) + PackFirstByte(row, j + 1)

\* ppm_encode(bits, M) under the NumPy release named by numpy.  The byte array
\* of indices is reduced modulo the Python integer M: NumPy 1.x widens the
\* bytes first, NumPy 2.x refuses an M that does not fit a byte.
ppm_encode(bits, M, numpy) ==
    LET b == [i \in 1..Len(bits) |-> bits[i] % 2]
        failed(exc) == [status |-> exc, out |-> <<>>]
    IN  IF M < 0 THEN failed("ValueError")
        ELSE IF M = 0 THEN failed("OverflowError")
        ELSE LET k == CeilLog2(M)
             IN  IF k = 0 THEN failed("ZeroDivisionError")
                 ELSE LET pad == (-Len(b)) % k
                          padded == b \o [i \in 1..pad |-> 0]
                          n == Len(padded) \div k
                          syms == [r \in 1..n |-> SubSeq(padded, (r - 1) * k + 1, r * k)]
                          byte == [r \in 1..n |-> PackFirstByte(syms[r], 0)]
                      IN  IF M > 255 /\ numpy = "2.x" THEN failed("OverflowError")
                          ELSE LET idx == [r \in 1..n |-> byte[r] % M]
                               IN  [status |-> "ok",
                                    out |-> [r \in 1..n |->
                                               [c \in 1..M |-> IF c - 1 = idx[r] THEN 1 ELSE 0]]]

\* ------------------------------------------------------------------------
\* The bounded inputs
\* ------------------------------------------------------------------------

\* Calls of the engine in one behaviour.
MaxCalls == 3

\* Calls on the Link of a sweep.
MaxSweepCalls == 1

\* Largest size asked of fading_gain.
MaxSize == 3

\* Longest bit sequence given to ppm_encode.
MaxBits == 9

\* Longest sequence of unmasked integers given to ppm_encode.
MaxRawLen == 2

Seeds == {3}

Distances == {FromInt(-2), FromInt(0), FromInt(1), FromInt(2), FromInt(3)}

Waters == {clear_ocean_520nm, turbid_harbor_520nm}

Transmitters == {Tx(Pt, laser) : Pt \in {Dec(1, -1), Zero}, laser \in BOOLEAN}

Receivers ==
    {Rx(Dec(2, -1), Dec(1, -6), R_load) : R_load \in {FromInt(50), Zero}}

Geometries ==
    {Geometry(d, FromInt(30), phi, fov) :
        d \in Distances,
        phi \in {FromInt(15), FromInt(-45), FromInt(120)},
        fov \in {FromInt(30), FromInt(120)}}

ModelNames ==
    {"lognormal", "gen-gamma", "generalized-gamma", "Weibull", "kolmogorov"}

KnownModels == {"lognormal", "gen-gamma", "generalized-gamma", "weibull"}

Turbulences ==
    {Turbulence(name, sc) :
        name \in ModelNames, sc \in {Dec(-1, -1), Zero, Dec(1, -1)}}

\* The quickstart's link: LED in clear ocean at distance d.
QuickLink(d, turb) ==
    Link(clear_ocean_520nm, Tx(Dec(1, -1), FALSE),
         Rx(Dec(2, -1), Dec(1, -6), FromInt(50)),
         Geometry(d, FromInt(30), FromInt(15), FromInt(30)), turb)

\* Links of the distance / angle sweep.
SweepLinks ==
    {Link(w, tx, rx, g, Turbulence("lognormal", Dec(1, -1))) :
        w \in Waters, tx \in Transmitters, rx \in Receivers, g \in Geometries}

\* Turbulence of the Links evaluated side by side.
PairTurbulences ==
    {Turbulence("lognormal", Dec(1, -1)), Turbulence("lognormal", Zero),
     Turbulence("Weibull", Dec(-1, -1)),
     Turbulence("gen-gamma", Dec(1, -1)), Turbulence("Weibull", Dec(1, -1)),
     Turbulence("kolmogorov", Dec(1, -1))}

\* Link 1 under each turbulence, beside a second Link farther away.
LinkPairs ==
    {[l \in {1, 2} |->
        IF l = 1 THEN QuickLink(One, t)
        ELSE QuickLink(Two, Turbulence("lognormal", Dec(1, -1)))] :
     t \in PairTurbulences}

TurbLinks == {QuickLink(FromInt(1), t) : t \in Turbulences}

\* Links with a 1 cm^2 photodiode one metre away, the load resistance being a
\* transimpedance of 100 kOhm or 0.
NoiseLinks ==
    {Link(clear_ocean_520nm, Tx(Dec(1, -1), FALSE), Rx(R, Dec(1, -4), R_load),
          Geometry(One, FromInt(30), FromInt(15), FromInt(30)),
          Turbulence("lognormal", Dec(1, -1))) :
        R \in {Dec(2, -1), Zero}, R_load \in {Dec(1, 5), Zero}}

\* Arguments of snr_db and noise_variances.
NoiseArgs ==
    [bandwidth_Hz : {Zero, Dec(1, 6)}, rin : {None, Zero, Dec(1, -12)},
     Idark_A : {None, Zero, Dec(1, -6)}, Pbg_W : {Zero, Dec(1, -6)},
     R_apd_M : {One, FromInt(10)}, F_excess : {One, Two}]

\* The quickstart's call: snr_db(bandwidth_Hz=1e6, rin=None, Idark_A=1e-9).
SnrArgs ==
    {[bandwidth_Hz |-> Dec(1, 6), rin |-> None, Idark_A |-> Dec(1, -9),
      Pbg_W |-> Zero, R_apd_M |-> One, F_excess |-> One]}

Powers == {Zero, Dec(115, -12), Dec(3, -6)}

RECURSIVE SeqsUpTo(_, _)
SeqsUpTo(S, n) ==
    IF n <= 0 THEN {<<>>}
    ELSE LET shorter == SeqsUpTo(S, n - 1)
         IN  shorter \cup {Append(t, x) : t \in {u \in shorter : Len(u) = n - 1}, x \in S}

PpmOrders == {1, 2, 3, 4, 8, 512}

PpmInputs == SeqsUpTo({0, 1}, MaxBits) \cup SeqsUpTo({0, 1, 2, 3}, MaxRawLen)

NumpyBuilds == {"1.x", "2.x"}

\* ------------------------------------------------------------------------
\* State
\* ------------------------------------------------------------------------

VARIABLES
    links,          \* the Link objects: id -> Link
    rng,            \* state of the process-wide np.random generator
    seed,           \* the state np.random started in
    nFadingCalls,   \* calls of Turbulence.fading_gain so far
    nVariates,      \* variates drawn from np.random so far
    log             \* the completed calls, in order, with what they returned

vars == <<links, rng, seed, nFadingCalls, nVariates, log>>

InitWith(LinkMaps) ==
    /\ links \in LinkMaps
    /\ seed \in Seeds
    /\ rng = seed
    /\ nFadingCalls = 0
    /\ nVariates = 0
    /\ log = <<>>

\* A completed call touched the generator as r says and left entry in the log.
Completed(r, fading_calls, entry) ==
    /\ rng' = r.rng
    /\ nFadingCalls' = nFadingCalls + fading_calls
    /\ nVariates' = nVariates + r.variates
    /\ log' = Append(log, entry)
    /\ UNCHANGED <<links, seed>>

ReceivedPowerReturns(l, stochastic, r) ==
    Completed(r, r.fading_calls,
              [op |-> "received_power_W", link |-> l, stochastic |-> stochastic,
               status |-> r.status, value |-> r.value, gain |-> r.gain,
               rng_before |-> rng, rng_after |-> r.rng])

\* Link.received_power_W(stochastic) on link l.
ReceivedPowerW(l, stochastic) ==
    ReceivedPowerReturns(l, stochastic, received_power_W(links[l], stochastic, rng))

SnrDbReturns(l, a, r) ==
    Completed(r, r.fading_calls,
              [op |-> "snr_db", link |-> l, args |-> a, status |-> r.status,
               value |-> r.value, Pr |-> r.Pr, nv |-> r.nv, sigma2 |-> r.sigma2,
               rng_before |-> rng, rng_after |-> r.rng])

\* Link.snr_db(**a) on link l.
SnrDb(l, a) == SnrDbReturns(l, a, snr_db(links[l], a, rng))

NoiseVariancesReturns(l, Pr_W, a, nv) ==
    /\ log' = Append(log,
           [op |-> "noise_variances", link |-> l, Pr_W |-> Pr_W, args |-> a,
            status |-> "ok", nv |-> nv, keys |-> DOMAIN nv])
    /\ UNCHANGED <<links, seed, rng, nFadingCalls, nVariates>>

\* Link.noise_variances(Pr_W, **a) on link l.
NoiseVariances(l, Pr_W, a) ==
    NoiseVariancesReturns(l, Pr_W, a, noise_variances(links[l], Pr_W, a))

FadingGainReturns(l, size, r) ==
    Completed(r, 1,
              [op |-> "fading_gain", link |-> l, size |-> size,
               status |-> r.status, gains |-> r.gains,
               rng_before |-> rng, rng_after |-> r.rng])

\* links[l].turb.fading_gain(size)
FadingGain(l, size) ==
    FadingGainReturns(l, size, fading_gain(links[l].turb, size, rng))

PpmEncodeReturns(bits, M, r) ==
    /\ log' = Append(log,
           [op |-> "ppm_encode", bits |-> bits, M |-> M,
            status |-> r.status, out |-> r.out])
    /\ UNCHANGED <<links, seed, rng, nFadingCalls, nVariates>>

\* ppm_encode(bits, M) under NumPy release numpy.
PpmEncode(bits, M, numpy) == PpmEncodeReturns(bits, M, ppm_encode(bits, M, numpy))

\* Two Links evaluated in any interleaving, as in the quickstart's loops,
\* MaxCalls calls in all.
Init == InitWith(LinkPairs)

Next ==
    \/ \E l \in DOMAIN links, stochastic \in BOOLEAN :
            Len(log) < MaxCalls /\ ReceivedPowerW(l, stochastic)
    \/ \E l \in DOMAIN links, a \in SnrArgs :
            Len(log) < MaxCalls /\ SnrDb(l, a)

Spec == Init /\ [][Next]_vars

\* One Link of a sweep over water, transmitter, receiver and geometry,
\* MaxSweepCalls calls on each.
InitSweep == InitWith([{1} -> SweepLinks])

NextSweep ==
    \/ \E l \in DOMAIN links, stochastic \in BOOLEAN :
            Len(log) < MaxSweepCalls /\ ReceivedPowerW(l, stochastic)
    \/ \E l \in DOMAIN links, a \in SnrArgs :
            Len(log) < MaxSweepCalls /\ SnrDb(l, a)

SpecSweep == InitSweep /\ [][NextSweep]_vars

\* The turbulence generator on its own.
InitTurb == InitWith([{1} -> TurbLinks])

NextTurb ==
    \E l \in DOMAIN links, size \in 1..MaxSize :
        Len(log) < MaxCalls /\ FadingGain(l, size)

SpecTurb == InitTurb /\ [][NextTurb]_vars

\* The noise model and the SNR over their arguments, one call per behaviour.
InitNoise == InitWith([{1} -> NoiseLinks])

NextNoise ==
    \/ \E l \in DOMAIN links, Pr_W \in Powers, a \in NoiseArgs :
            log = <<>> /\ NoiseVariances(l, Pr_W, a)
    \/ \E l \in DOMAIN links, a \in NoiseArgs :
            log = <<>> /\ SnrDb(l, a)

SpecNoise == InitNoise /\ [][NextNoise]_vars

\* The PPM encoder over its inputs, one call per behaviour.
InitPpm == InitWith([{1} -> {QuickLink(One, Turbulence("lognormal", Zero))}])

NextPpm ==
    \E bits \in PpmInputs, M \in PpmOrders, numpy \in NumpyBuilds :
        log = <<>> /\ PpmEncode(bits, M, numpy)

SpecPpm == InitPpm /\ [][NextPpm]_vars

\* ------------------------------------------------------------------------
\* Properties of the link-budget engine
\* ------------------------------------------------------------------------

\* |phi_incident_deg| > fov_deg
Blocked(geom) == FLt(geom.fov_deg, FAbs(geom.phi_incident_deg))

\* C1: for every Link whose geometry has |phi_incident_deg| > fov_deg,
\* received_power_W returns exactly 0, with stochastic=False and with
\* stochastic=True; when |phi_incident_deg| <= fov_deg the FOV window
\* contributes a factor of exactly 1.
FovCutoffIsExactZero ==
    \A i \in DOMAIN log :
        log[i].op = "received_power_W" =>
            LET geom == links[log[i].link].geom
            IN  /\ Blocked(geom) => (log[i].status = "ok" /\ log[i].value = Zero)
                /\ ~Blocked(geom) => (fov_window(geom, geom.phi_incident_deg) = One)

\* distance <= 0, load resistance <= 0, or FOV outside (0 deg, 90 deg]
BadGeometry(self) ==
    \/ FLe(self.geom.distance_m, Zero)
    \/ FLe(self.rx.R_load, Zero)
    \/ ~(FLt(Zero, self.geom.fov_deg) /\ FLe(self.geom.fov_deg, FromInt(90)))

\* C2: evaluating a Link (received_power_W or snr_db, LED or laser) whose
\* distance is <= 0, whose load resistance is <= 0 or whose FOV lies outside
\* (0 deg, 90 deg] fails with InvalidGeometry and yields no numeric result.
BadGeometryIsRefused ==
    \A i \in DOMAIN log :
        (log[i].op \in {"received_power_W", "snr_db"} /\ BadGeometry(links[log[i].link]))
            => log[i].status = "InvalidGeometry"

\* C3: a turbulence spec whose model name is not lognormal, generalized-gamma
\* (gen-gamma) or weibull fails with UnknownTurbulenceModel, for every
\* scintillation index; fading_gain never returns samples for such a name.
UnknownModelIsRefused ==
    \A i \in DOMAIN log :
        (log[i].op = "fading_gain"
            /\ Lower(links[log[i].link].turb.model_name) \notin KnownModels)
            => (log[i].status = "UnknownTurbulenceModel" /\ log[i].gains = <<>>)

\* The calls received_power_W(stochastic=True) made so far
StochasticCalls ==
    {i \in DOMAIN log : log[i].op = "received_power_W" /\ log[i].stochastic}

\* Those on a Link whose scintillation index is positive
FadedCalls ==
    {i \in StochasticCalls : FGt(links[log[i].link].turb.scint_index, Zero)}

\* Those of them on a Link whose model name fading_gain recognises
SampledCalls ==
    {i \in FadedCalls : Lower(links[log[i].link].turb.model_name) \in KnownModels}

\* C4 as stated: a deterministic evaluation consumes no draw, and every call
\* received_power_W(stochastic=True) consumes exactly one turbulence draw (one
\* call of the fading generator for one sample), for every turbulence spec
\* including scintillation index 0: after k stochastic and j deterministic
\* calls exactly k draws have been consumed.
OneDrawPerStochasticCall ==
    /\ nFadingCalls = Cardinality(StochasticCalls)
    /\ \A i \in DOMAIN log :
           (log[i].op = "received_power_W" /\ ~log[i].stochastic)
               => log[i].rng_after = log[i].rng_before

\* C4, amended: a call received_power_W(stochastic=True) calls the fading
\* generator, once and for one sample, exactly when the scintillation index is
\* positive, and that call draws one variate exactly when the model name is a
\* recognised one; every other evaluation (deterministic, snr_db, stochastic
\* with an index <= 0) leaves the random source untouched.
OneDrawPerFadedCall ==
    /\ nFadingCalls = Cardinality(FadedCalls)
    /\ nVariates = Cardinality(SampledCalls)
    /\ rng = RngAfter(seed, nVariates)
    /\ \A i \in DOMAIN log :
           IF i \in SampledCalls
           THEN log[i].rng_after = NextRng(log[i].rng_before)
           ELSE log[i].rng_after = log[i].rng_before

\* A stochastic call on a Link of scintillation index 0, a stochastic call on
\* a fading Link and a deterministic call have all been made.
FadeSkippedAndTaken ==
    /\ links[1].turb.scint_index = Zero
    /\ nFadingCalls = 1
    /\ nVariates = 1
    /\ \E i, j, k \in DOMAIN log :
           /\ log[i].op = "received_power_W" /\ log[i].stochastic /\ log[i].link = 1
           /\ log[j].op = "received_power_W" /\ log[j].stochastic /\ log[j].link = 2
           /\ log[k].op = "received_power_W" /\ ~log[k].stochastic

\* Variates drawn by the calls on link l among the first n calls
OwnDraws(l, n) ==
    Cardinality({j \in 1..n :
                    log[j].link = l /\ log[j].rng_after # log[j].rng_before})

\* The logged call returned what r holds and, if it drew from the generator,
\* found it in state s.
RanAs(entry, s, r) ==
    /\ entry.value = r.value
    /\ entry.gain = r.gain
    /\ (entry.rng_after # entry.rng_before) => (entry.rng_before = s)

RanFrom(entry, s) ==
    RanAs(entry, s, received_power_W(links[entry.link], entry.stochastic, s))

\* C5: evaluations on distinct Links share no mutable state, the random
\* source included: in any interleaving of evaluations on two Links, each
\* Link's results and draw sequence are the same as when it runs alone.
LinksRunAsAlone ==
    \A i \in DOMAIN log :
        log[i].op = "received_power_W" =>
            RanFrom(log[i], RngAfter(seed, OwnDraws(log[i].link, i - 1)))

SameDeterministicResults ==
    \A i, j \in DOMAIN log :
        (log[i].op = log[j].op /\ log[i].link = log[j].link) =>
            /\ (log[i].op = "received_power_W"
                    /\ ~log[i].stochastic /\ ~log[j].stochastic)
                   => log[i].value = log[j].value
            /\ (log[i].op = "snr_db" /\ log[i].args = log[j].args)
                   => log[i].value = log[j].value

\* C6: any two calls of received_power_W(stochastic=False), and of snr_db with
\* the same arguments, on the same Link return identical results whatever
\* evaluations happened in between, and no evaluation modifies a Link or its
\* WaterType, Tx, Rx, Geometry or Turbulence.
NoHiddenState == []SameDeterministicResults /\ [][links' = links]_vars

\* Two deterministic calls on one Link with a stochastic call on it, which
\* drew a variate and returned another power, in between.
DeterministicAroundStochastic ==
    \E i, j, k \in DOMAIN log :
        /\ i < j /\ j < k
        /\ log[i].op = "received_power_W" /\ ~log[i].stochastic
        /\ log[j].op = "received_power_W" /\ log[j].stochastic
        /\ log[k].op = "received_power_W" /\ ~log[k].stochastic
        /\ log[i].link = log[j].link /\ log[j].link = log[k].link
        /\ log[j].rng_after # log[j].rng_before
        /\ log[j].value # log[i].value

\* The dict nv returned for arguments a holds the four components, none
\* negative, dark being 0 without a positive dark current and rin being 0
\* without a RIN coefficient.
FourComponents(nv, a) ==
    /\ DOMAIN nv = {"shot", "thermal", "dark", "rin"}
    /\ \A c \in DOMAIN nv : FLe(Zero, nv[c])
    /\ (a.Idark_A = None \/ ~FGt(a.Idark_A, Zero)) => (nv.dark = Zero)
    /\ (a.rin = None) => (nv.rin = Zero)

\* shot + thermal + dark + rin, added in that order
SumOfFour(nv) == FAdd(FAdd(FAdd(nv.shot, nv.thermal), nv.dark), nv.rin)

\* The SNR that snr_db logged is the one of the signal current over total.
SnrUses(entry, self, total) ==
    /\ entry.sigma2 = total
    /\ entry.value =
           Decibels(Sq(FMul(FMul(self.rx.R_A_per_W, entry.args.R_apd_M), entry.Pr)),
                    total)

\* C7: for non-negative inputs noise_variances returns exactly the four
\* components shot, thermal, dark and rin, each >= 0, with dark = 0 unless a
\* positive dark current is supplied and rin = 0 when no RIN coefficient is
\* supplied; the total noise variance used by snr_db is exactly the sum of
\* these four components with no other term.
NoiseVariancesAddUp ==
    \A i \in DOMAIN log :
        /\ log[i].op = "noise_variances" =>
               (log[i].keys = DOMAIN log[i].nv /\ FourComponents(log[i].nv, log[i].args))
        /\ log[i].op = "snr_db" =>
               /\ FourComponents(log[i].nv, log[i].args)
               /\ log[i].nv = noise_variances(links[log[i].link], log[i].Pr, log[i].args)
               /\ SnrUses(log[i], links[log[i].link], SumOfFour(log[i].nv))

\* snr_db ran with all four noise components present, the last of them
\* telling in the total.
AllFourNoiseTermsPresent ==
    \E i \in DOMAIN log :
        /\ log[i].op = "snr_db"
        /\ \A c \in DOMAIN log[i].nv : FLt(Zero, log[i].nv[c])
        /\ FLt(FAdd(FAdd(log[i].nv.shot, log[i].nv.thermal), log[i].nv.dark),
               log[i].sigma2)

\* C8: whenever the scintillation index is <= 0, fading_gain(size=n) returns
\* a sequence of length exactly n whose every element is exactly 1.0, for
\* every n >= 1 and every model name, and consumes no randomness.
NoFadeIsAllOnes ==
    \A i \in DOMAIN log :
        (log[i].op = "fading_gain"
            /\ FLe(links[log[i].link].turb.scint_index, Zero)) =>
            /\ log[i].status = "ok"
            /\ Len(log[i].gains) = log[i].size
            /\ \A n \in DOMAIN log[i].gains : log[i].gains[n] = One
            /\ log[i].rng_after = log[i].rng_before
            /\ nVariates = 0

\* fading_gain returned a batch of several gains for a recognised model of
\* scintillation index 0, and a single gain for it as well.
NoFadeBatch ==
    /\ links[1].turb.scint_index = Zero
    /\ Lower(links[1].turb.model_name) \in KnownModels
    /\ \E i, j \in DOMAIN log :
           /\ log[i].op = "fading_gain" /\ log[i].size > 1
           /\ log[j].op = "fading_gain" /\ log[j].size = 1

\* The Link that differs from self only in its geometry's distance
AtDistance(self, d) == [self EXCEPT !.geom.distance_m = d]

\* received_power_W(stochastic=False) of that Link
PowerAt(self, d) == received_power_W(AtDistance(self, d), FALSE, seed).value

\* The logged deterministic calls on Links at a positive distance
DeterministicAtRange ==
    {i \in DOMAIN log :
        /\ log[i].op = "received_power_W"
        /\ ~log[i].stochastic
        /\ FLt(Zero, links[log[i].link].geom.distance_m)}

Illuminated(self) ==
    /\ FLt(Zero, self.tx.Pt_w)
    /\ ~Blocked(self.geom)
    /\ FLt(Zero, CosDeg(self.geom.phi_incident_deg))

\* near is the power at the smaller distance, far at the larger one.
Falls(self, near, far) ==
    IF Illuminated(self) THEN FLt(far, near) /\ FLt(Zero, far)
    ELSE near = Zero /\ far = Zero

BitAt(bits, n) == IF n <= Len(bits) THEN bits[n] % 2 ELSE 0

\* Integer value of bits j..k of the r-th group of k bits, first bit highest
RECURSIVE GroupValue(_, _, _, _)
GroupValue(bits, r, k, j) ==
    IF j > k THEN 0
    ELSE BitAt(bits, (r - 1) * k + j) * Pow2(k - j) + GroupValue(bits, r, k, j + 1)

\* out holds one row of width M per group of k bits, row r having its only 1
\* at the group's value modulo M.
OneHotRows(out, bits, M, k) ==
    /\ k > 0
    /\ Len(out) = (Len(bits) + k - 1) \div k
    /\ \A r \in DOMAIN out :
           /\ Len(out[r]) = M
           /\ \A c \in 1..M :
                  out[r][c] = IF c - 1 = GroupValue(bits, r, k, 1) % M THEN 1 ELSE 0

\* C10: for every order M (of two slots or more) and every input bit sequence,
\* ppm_encode groups the bits k = ceil(log2 M) at a time (zero-padding the last
\* group) and returns ceil(len(bits)/k) rows of width M, each with exactly one
\* 1 and M-1 zeros, the 1 standing at the value of the row's k-bit group
\* modulo M.
PpmRowsAreGroupValuesModM ==
    \A i \in DOMAIN log :
        (log[i].op = "ppm_encode" /\ log[i].M >= 2) =>
            /\ log[i].status = "ok"
            /\ OneHotRows(log[i].out, log[i].bits, log[i].M, CeilLog2(log[i].M))

\* Turbulence specs of other names, indices and shape parameters
OtherTurbulences ==
    {Turbulence("kolmogorov", Dec(-1, -1)),
     [Turbulence("gen-gamma", Dec(1, -1)) EXCEPT !.gg_alpha = Two, !.gg_beta = Half],
     [Turbulence("Weibull", Two) EXCEPT !.weibull_k = Two, !.weibull_lambda = Half]}

\* The Link that differs from self only in its Turbulence
WithTurbulence(self, turb) == [self EXCEPT !.turb = turb]

\* The call of snr_db logged last left the generator as it found it, and
\* returned what the same call returns under every other turbulence spec,
\* made with the generator in another state.
LastSnrIgnoresTurbulence ==
    (log # <<>> /\ log[Len(log)].op = "snr_db") =>
        /\ log[Len(log)].rng_after = log[Len(log)].rng_before
        /\ \A t \in OtherTurbulences :
               snr_db(WithTurbulence(links[log[Len(log)].link], t),
                      log[Len(log)].args,
                      NextRng(log[Len(log)].rng_before)).value
                   = log[Len(log)].value

\* A step that is a call of snr_db consumes nothing from the random source.
SnrStepDrawsNothing ==
    (Len(log') = Len(log) + 1 /\ log'[Len(log')].op = "snr_db") =>
        (rng' = rng /\ nVariates' = nVariates /\ nFadingCalls' = nFadingCalls)

\* C11: snr_db is independent of the Link's turbulence spec and of the random
\* source: two Links that differ only in their Turbulence (model name,
\* scintillation index, shape parameters) return the same snr_db for the same
\* arguments, and a call of snr_db consumes no random draw.
SnrIgnoresTurbulence == []LastSnrIgnoresTurbulence /\ [][SnrStepDrawsNothing]_vars

\* snr_db was called on a Link under lognormal fading after a stochastic call
\* on that Link had drawn from the generator and returned a faded power.
SnrAfterFadedCall ==
    \E i, j \in DOMAIN log :
        /\ i < j
        /\ log[i].op = "received_power_W" /\ log[i].stochastic
        /\ log[i].rng_after # log[i].rng_before
        /\ log[i].gain # One
        /\ log[j].op = "snr_db"
        /\ log[j].link = log[i].link
        /\ log[j].Pr # log[i].value

\* The model names whose batch fading_gain divides by its mean
MeanNormalised == {"gen-gamma", "generalized-gamma", "weibull"}

\* States the np.random generator can be in
RngStates == 0..15

\* The logged stochastic call drew from the generator, got a gain of exactly
\* 1.0 and so returned the deterministic power.
FadedToNothing(entry, self) ==
    /\ entry.rng_after # entry.rng_before
    /\ entry.gain = One
    /\ entry.value = received_power_W(self, FALSE, entry.rng_before).value

\* C12: for the gen-gamma and weibull models with scintillation index > 0, a
\* batch of size 1 drawn by fading_gain is divided by its own mean and is
\* [1.0] for every positive raw draw, so received_power_W(stochastic=True)
\* equals received_power_W(stochastic=False) for these two models, and only
\* the lognormal model produces a per-call fading gain different from 1.
\* The batch of size 1 is examined in every generator state when the call is
\* the latest one, which each call is in the state it leads to.
SingleSampleIsUnitGain ==
    \A i \in DOMAIN log :
        log[i].op = "received_power_W" =>
            /\ (log[i].gain # One) =>
                   (log[i].stochastic
                        /\ Lower(links[log[i].link].turb.model_name) = "lognormal")
            /\ (i \in FadedCalls
                    /\ Lower(links[log[i].link].turb.model_name) \in MeanNormalised) =>
                   /\ FadedToNothing(log[i], links[log[i].link])
                   /\ (i = Len(log)) =>
                          \A s \in RngStates :
                              fading_gain(links[log[i].link].turb, 1, s).gains = <<One>>

\* A stochastic call on a Weibull Link drew a variate and returned what a
\* deterministic call on that Link returned, while a stochastic call on the
\* lognormal Link returned a faded power.
WeibullCallUnfaded ==
    \E i, j, k \in DOMAIN log :
        /\ i \in FadedCalls
        /\ Lower(links[log[i].link].turb.model_name) = "weibull"
        /\ log[i].rng_after # log[i].rng_before
        /\ log[j].op = "received_power_W" /\ ~log[j].stochastic
        /\ log[j].link = log[i].link
        /\ log[j].value = log[i].value
        /\ k \in FadedCalls
        /\ Lower(links[log[k].link].turb.model_name) = "lognormal"
        /\ log[k].gain # One

====
